---- MODULE Spec2Model ----
(***************************************************************************)
(* img-optim (src/main.rs): converts the images of a zip archive with an   *)
(* external raster tool and re-packs the result.                           *)
(*                                                                         *)
(* Two specifications over the same variables:                             *)
(*   Spec         main's archive pipeline: for each job process_archive =  *)
(*                temp dirs, unpack_archive, process_files (one step per   *)
(*                walked entry), repack_output, drop of the temp dirs.     *)
(*   SpecResolve  main's batch front end: resolve_pattern over a flat      *)
(*                directory of plain files, the listing and the prompt.    *)
(*                                                                         *)
(* Strings the code inspects character by character (file names, glob and  *)
(* regex patterns) are sequences of one-character strings.  A relative     *)
(* path is a sequence of file names.                                       *)
(***************************************************************************)
EXTENDS Integers, Sequences, FiniteSets

VARIABLES
    pc,            \* position of main / process_archive
    opts,          \* the parsed Opts (fields used by the pipeline)
    parts,         \* number of archives main has to process
    jobIdx,        \* index of the job main is at (1-based)
    target,        \* what opts.target is on disk when the job starts
    archive,       \* entries of the job's source zip, in archive order
    tempdirs,      \* scratch directories that exist on disk
    unpack_dir,    \* the job's unpack TempDir ("": none held)
    processed_dir, \* the job's processed TempDir ("": none held)
    unpackTree,    \* content of unpack_dir
    outTree,       \* content of processed_dir
    visited,       \* entries the walker of process_files has yielded
    last,          \* the entry the walker yielded last
    routes,        \* how process_one_file dispatched each yielded file
    written,       \* (source entry, destination) of every file written
    convFailed,    \* images whose conversion returned an error
    lastArgs,      \* argument vector of the latest gm invocation
    unpacked,      \* outcome of unpack_archive for the current job
    repack,        \* outcome of repack_output for the current job
    result,        \* what process_archive returned for the current job
    targetZip,     \* content of the archive written by a successful zip
    ropts,         \* resolve_pattern's input: source, target, pattern
    disk,          \* plain files of the directory resolve_pattern globs
    resolved       \* what resolve_pattern returned

vars == <<pc, opts, parts, jobIdx, target, archive, tempdirs, unpack_dir,
          processed_dir, unpackTree, outTree, visited, last, routes, written,
          convFailed, lastArgs, unpacked, repack, result, targetZip,
          ropts, disk, resolved>>

resolveVars == <<ropts, disk, resolved>>

(***************************************************************************)
(* Bounds                                                                  *)
(***************************************************************************)
\* entries of one source archive
MaxEntries == 3
\* archives of one batch
MaxJobs == 2
\* plain files in the directory resolve_pattern walks
MaxDisk == 3

(***************************************************************************)
(* Options                                                                 *)
(***************************************************************************)
None == [some |-> FALSE]
Some(v) == [some |-> TRUE, v |-> v]

unwrap_or(o, d) == IF o.some THEN o.v ELSE d

(***************************************************************************)
(* Paths (std::path::Path)                                                 *)
(***************************************************************************)
Root == <<>>

Parent(p) == SubSeq(p, 1, Len(p) - 1)

FileName(p) == p[Len(p)]

\* every directory on the way to p, p excluded, the root excluded
Ancestors(p) == {SubSeq(p, 1, i) : i \in 1..(Len(p) - 1)}

Max(S) == CHOOSE x \in S : \A y \in S : y <= x

\* index of the last '.' of a file name, 0 if none
LastDot(name) == Max({0} \cup {i \in 1..Len(name) : name[i] = "."})

\* Path::extension: nothing without an embedded '.', nothing when the only
\* '.' leads the name, else what follows the last '.'.  process_one_file
\* turns "no extension" into the empty string.
Extension(name) ==
    IF LastDot(name) <= 1 THEN <<>>
    ELSE SubSeq(name, LastDot(name) + 1, Len(name))

FileStem(name) ==
    IF LastDot(name) <= 1 THEN name
    ELSE SubSeq(name, 1, LastDot(name) - 1)

\* Path::with_extension
with_extension(p, ext) ==
    Parent(p) \o << IF ext = <<>> THEN FileStem(FileName(p))
                    ELSE FileStem(FileName(p)) \o <<".">> \o ext >>

(***************************************************************************)
(* File names of the model                                                 *)
(***************************************************************************)
jpg == <<"j", "p", "g">>
png == <<"p", "n", "g">>
webp == <<"w", "e", "b", "p">>
avif == <<"a", "v", "i", "f">>
gif == <<"g", "i", "f">>
txt == <<"t", "x", "t">>

IMAGE_EXTENSIONS == {jpg, png, webp, avif, gif}

DotDot == <<".", ".">>

\* the zip entries a source archive is drawn from, in archive order
ArchiveUniverse ==
    << [path |-> << <<"d">> >>, isDir |-> TRUE, data |-> 1],
       [path |-> << <<"d">>, <<"a", ".", "p", "n", "g">> >>, isDir |-> FALSE, data |-> 2],
       [path |-> << <<"d">>, <<"a", ".", "g", "i", "f">> >>, isDir |-> FALSE, data |-> 3],
       [path |-> << <<"d">>, <<"e">>, <<"n">> >>, isDir |-> FALSE, data |-> 4],
       [path |-> << <<"A", ".", "J", "P", "G">> >>, isDir |-> FALSE, data |-> 5],
       [path |-> << <<"d">>, <<"a", ".", "t", "x", "t">> >>, isDir |-> FALSE, data |-> 6],
       [path |-> << DotDot, <<"x">> >>, isDir |-> FALSE, data |-> 7] >>

RECURSIVE SeqOfIndices(_, _)
SeqOfIndices(S, i) ==
    IF i > Len(ArchiveUniverse) THEN <<>>
    ELSE (IF i \in S THEN <<ArchiveUniverse[i]>> ELSE <<>>) \o SeqOfIndices(S, i + 1)

Archives ==
    {SeqOfIndices(S, 1) :
        S \in {T \in SUBSET (1..Len(ArchiveUniverse)) : Cardinality(T) <= MaxEntries}}

(***************************************************************************)
(* Filesystem trees: the directories and the files below a root            *)
(***************************************************************************)
EmptyTree == [dirs |-> {}, files |-> {}]

HasDir(t, p) == p = Root \/ p \in t.dirs

create_dir_all(t, p) ==
    [t EXCEPT !.dirs = t.dirs \cup Ancestors(p) \cup (IF p = Root THEN {} ELSE {p})]

\* create_parent (lines 288-296)
create_parent(t, p) == create_dir_all(t, Parent(p))

\* File::create / fs::copy / the raster tool writing p: needs p's directory
CanWrite(t, p) == HasDir(t, Parent(p)) /\ p \notin t.dirs

WriteFile(t, p, d) ==
    [t EXCEPT !.files = {f \in t.files : f.path # p} \cup {[path |-> p, data |-> d]}]

FilePaths(t) == {f.path : f \in t.files}

Entries(t) == t.dirs \cup FilePaths(t)

DataAt(t, p) == (CHOOSE f \in t.files : f.path = p).data

(***************************************************************************)
(* unpack_archive (lines 132-163)                                          *)
(***************************************************************************)
Raw(n) == [id |-> n, conv |-> FALSE]

Converted(d) == [id |-> d.id, conv |-> TRUE]

\* ZipFile::enclosed_name: no path when a ".." component leaves the root
enclosed_name(p) ==
    IF \E i \in 1..Len(p) :
          Cardinality({j \in 1..i : p[j] = DotDot})
            > Cardinality({j \in 1..i : p[j] # DotDot})
    THEN None ELSE Some(p)

\* the loop of lines 135-161 from entry i on, on the tree built so far; the
\* stored unix mode of an entry is not part of the model
RECURSIVE unpack_from(_, _, _)
unpack_from(a, i, t) ==
    IF i > Len(a) THEN [ok |-> TRUE, tree |-> t]
    ELSE IF ~enclosed_name(a[i].path).some THEN [ok |-> FALSE, tree |-> t]
    ELSE IF a[i].isDir THEN unpack_from(a, i + 1, create_dir_all(t, a[i].path))
    ELSE IF ~CanWrite(create_parent(t, a[i].path), a[i].path)
         THEN [ok |-> FALSE, tree |-> create_parent(t, a[i].path)]
    ELSE unpack_from(a, i + 1,
             WriteFile(create_parent(t, a[i].path), a[i].path, Raw(a[i].data)))

unpack_archive(a) == unpack_from(a, 1, EmptyTree)

(***************************************************************************)
(* process_one_image (lines 234-266), process_one_file (lines 218-232)     *)
(***************************************************************************)
Str(s) == [s |-> s]

PathArg(dir, rel) == [dir |-> dir, rel |-> rel]

\* lines 242-252
gm_args(o, item, dest) ==
    << Str("convert"), item,
       Str("-geometry"), Str(unwrap_or(o.geometry, "1000x1400^")),
       Str("-quality"), Str(unwrap_or(o.quality, "80")) >>
    \o (IF o.define.some THEN << Str("define"), Str(o.define.v) >> ELSE <<>>)
    \o << dest >>

\* destination of an image: lines 235-239
image_destination(o, item) == with_extension(item, unwrap_or(o.extension, jpg))

\* toolOk: the exit status of gm is success.  A failed conversion is taken
\* to leave no output file.
process_one_image(o, src, out, item, toolOk) ==
    LET dest == image_destination(o, item)
        made == create_parent(out, dest)
        done == toolOk /\ CanWrite(made, dest)
    IN [ out   |-> IF done THEN WriteFile(made, dest, Converted(DataAt(src, item)))
                   ELSE made,
         route |-> "image",
         wrote |-> IF done THEN {[src |-> item, dst |-> dest]} ELSE {},
         dest  |-> dest,
         err   |-> ~done ]

\* line 224
is_image(item) == Extension(FileName(item)) \in IMAGE_EXTENSIONS

process_one_file(o, src, out, item, toolOk) ==
    IF is_image(item) THEN process_one_image(o, src, out, item, toolOk)
    ELSE \* lines 227-230: the result of fs::copy is dropped
         [ out   |-> IF CanWrite(out, item) THEN WriteFile(out, item, DataAt(src, item))
                     ELSE out,
           route |-> "opaque",
           wrote |-> IF CanWrite(out, item) THEN {[src |-> item, dst |-> item]} ELSE {},
           dest  |-> item,
           err   |-> FALSE ]

(***************************************************************************)
(* process_files (lines 165-212)                                           *)
(***************************************************************************)
Children(t, d) == {p \in Entries(t) : Parent(p) = d}

Prefixes(p) == {SubSeq(p, 1, i) : i \in 0..Len(p)}

\* directories the depth-first walker is still inside of
OpenDirs ==
    {d \in Prefixes(last) :
        HasDir(unpackTree, d) /\ Children(unpackTree, d) \ visited # {}}

Deepest(D) == CHOOSE d \in D : \A e \in D : Len(e) <= Len(d)

\* what the walker may yield next: contents_first(false), siblings in the
\* order the filesystem lists them
Candidates ==
    IF OpenDirs = {} THEN {}
    ELSE Children(unpackTree, Deepest(OpenDirs)) \ visited

\* the error of process_one_file returned to the caller instead of logged
process_files_propagates(err) == err

\* lines 195-201: whether an error of process_one_file ends process_files
process_files_aborts(err) == FALSE

(***************************************************************************)
(* process_archive (lines 109-130) and main's loop (lines 48-54)           *)
(***************************************************************************)
\* names tempfile may give a scratch directory; "" is no directory
DirNames == {"tmpA", "tmpB"}

\* what the target path is on disk when a job starts
TargetKinds == {"absent", "empty_dir", "nonempty_dir"}

\* only the unpack directory removed, the processed one left on disk
drop_unpack_dir_only(existing, u, p) == existing \ {u}

\* the TempDir values of process_archive going out of scope (every return)
drop_temp_dirs(existing, u, p) == existing \ {u, p}

\* `zip --recurse-paths <target> .` cannot write an archive over a directory
zip_can_succeed(t) == t = "absent"

\* the conversion configurations main may be started with
OptsSet ==
    [ define    : {None, Some("d")},
      extension : {None, Some(txt)},
      geometry  : {None},
      quality   : {None} ]
    \cup { [ define |-> None, extension |-> None,
             geometry |-> Some("800x600"), quality |-> Some("90") ] }

NoArgs == <<>>

\* process_archive returning: both TempDir values are dropped
Return(res) ==
    /\ result' = res
    /\ tempdirs' = drop_temp_dirs(tempdirs, unpack_dir, processed_dir)
    /\ unpack_dir' = ""
    /\ processed_dir' = ""
    /\ unpackTree' = EmptyTree
    /\ outTree' = EmptyTree
    /\ IF res = "ok"
       THEN pc' = "main" /\ jobIdx' = jobIdx + 1
       ELSE pc' = "failed" /\ jobIdx' = jobIdx

\* lines 110-116: main calls process_archive, which creates its scratch dirs
StartJob ==
    /\ pc = "main"
    /\ jobIdx <= parts
    /\ \E u \in DirNames \ tempdirs :
         \E p \in DirNames \ (tempdirs \cup {u}) :
            /\ unpack_dir' = u
            /\ processed_dir' = p
            /\ tempdirs' = tempdirs \cup {u, p}
    /\ \E k \in TargetKinds : target' = k
    /\ pc' = "unpack"
    /\ archive' = <<>>
    /\ unpackTree' = EmptyTree
    /\ outTree' = EmptyTree
    /\ visited' = {}
    /\ last' = Root
    /\ routes' = {}
    /\ written' = {}
    /\ convFailed' = {}
    /\ lastArgs' = NoArgs
    /\ unpacked' = "none"
    /\ repack' = "none"
    /\ result' = "none"
    /\ targetZip' = EmptyTree
    /\ UNCHANGED <<opts, parts, jobIdx, resolveVars>>

\* line 119: unpack_archive on the job's source
Unpack ==
    /\ pc = "unpack"
    /\ \E a \in Archives :
         /\ archive' = a
         /\ IF unpack_archive(a).ok
            THEN /\ unpacked' = "ok"
                 /\ unpackTree' = unpack_archive(a).tree
                 /\ pc' = "walk"
                 /\ UNCHANGED <<result, tempdirs, unpack_dir, processed_dir,
                                outTree, jobIdx>>
            ELSE /\ unpacked' = "err"
                 /\ Return("err")
    /\ UNCHANGED <<opts, parts, target, visited, last, routes, written,
                   convFailed, lastArgs, repack, targetZip, resolveVars>>

\* one iteration of the loop of process_files (lines 176-210)
ProcessEntry ==
    /\ pc = "walk"
    /\ \E e \in Candidates :
         /\ visited' = visited \cup {e}
         /\ last' = e
         /\ IF e \in unpackTree.dirs
            THEN \* lines 179-190: create_dir_all on the walked path itself
                 /\ unpackTree' = create_dir_all(unpackTree, e)
                 /\ UNCHANGED <<outTree, routes, written, convFailed, lastArgs,
                                pc, result, tempdirs, unpack_dir,
                                processed_dir, jobIdx>>
            ELSE \* lines 191-205
                 \E toolOk \in BOOLEAN :
                   LET r == process_one_file(opts, unpackTree, outTree, e, toolOk) IN
                     /\ routes' = routes \cup {[src |-> e, as |-> r.route]}
                     /\ written' = written \cup r.wrote
                     /\ convFailed' = IF r.err THEN convFailed \cup {e} ELSE convFailed
                     /\ lastArgs' =
                          IF r.route = "image"
                          THEN gm_args(opts, PathArg(unpack_dir, e),
                                       PathArg(processed_dir, r.dest))
                          ELSE lastArgs
                     /\ IF process_files_aborts(r.err)
                        THEN Return("err")
                        ELSE /\ outTree' = r.out
                             /\ UNCHANGED <<unpackTree, pc, result, tempdirs,
                                            unpack_dir, processed_dir, jobIdx>>
    /\ UNCHANGED <<opts, parts, target, archive, unpacked, repack, targetZip,
                   resolveVars>>

\* lines 211, 124: the walker is exhausted, process_files returns Ok
ProcessFilesDone ==
    /\ pc = "walk"
    /\ Candidates = {}
    /\ pc' = "repack"
    /\ UNCHANGED <<opts, parts, jobIdx, target, archive, tempdirs, unpack_dir,
                   processed_dir, unpackTree, outTree, visited, last, routes,
                   written, convFailed, lastArgs, unpacked, repack, result,
                   targetZip, resolveVars>>

\* lines 127-129, 268-286: repack_output, whose result process_archive returns
Repack ==
    /\ pc = "repack"
    /\ \E zipOk \in {b \in BOOLEAN : b => zip_can_succeed(target)} :
         IF zipOk
         THEN /\ repack' = "ok"
              /\ targetZip' = outTree
              /\ Return("ok")
         ELSE /\ repack' = "err"
              /\ targetZip' = targetZip
              /\ Return("err")
    /\ UNCHANGED <<opts, parts, target, archive, visited, last, routes, written,
                   convFailed, lastArgs, unpacked, resolveVars>>

\* lines 52, 54: every job returned Ok
MainDone ==
    /\ pc = "main"
    /\ jobIdx > parts
    /\ pc' = "done"
    /\ UNCHANGED <<opts, parts, jobIdx, target, archive, tempdirs, unpack_dir,
                   processed_dir, unpackTree, outTree, visited, last, routes,
                   written, convFailed, lastArgs, unpacked, repack, result,
                   targetZip, resolveVars>>

NoResolve ==
    /\ ropts = [source |-> <<>>, target |-> <<>>, pattern |-> <<>>]
    /\ disk = {}
    /\ resolved = [status |-> "none", jobs |-> <<>>, walked |-> FALSE]

Idle ==
    /\ jobIdx = 1
    /\ target = "absent"
    /\ archive = <<>>
    /\ tempdirs = {}
    /\ unpack_dir = ""
    /\ processed_dir = ""
    /\ unpackTree = EmptyTree
    /\ outTree = EmptyTree
    /\ visited = {}
    /\ last = Root
    /\ routes = {}
    /\ written = {}
    /\ convFailed = {}
    /\ lastArgs = NoArgs
    /\ unpacked = "none"
    /\ repack = "none"
    /\ result = "none"
    /\ targetZip = EmptyTree

\* main at line 48 (batch, confirmed) or line 54 (single archive)
Init ==
    /\ pc = "main"
    /\ opts \in OptsSet
    /\ parts \in 1..MaxJobs
    /\ Idle
    /\ NoResolve

Next ==
    \/ StartJob
    \/ Unpack
    \/ ProcessEntry
    \/ ProcessFilesDone
    \/ Repack
    \/ MainDone

Spec == Init /\ [][Next]_vars

(***************************************************************************)
(* Strings of resolve_pattern                                              *)
(***************************************************************************)
\* byte value of a character, the order of str::cmp
Code(c) ==
    CASE c = "#" -> 35 [] c = "(" -> 40 [] c = ")" -> 41 [] c = "-" -> 45
      [] c = "." -> 46 [] c = "0" -> 48 [] c = "1" -> 49 [] c = "2" -> 50
      [] c = "?" -> 63 [] c = "N" -> 78 [] c = "\\" -> 92 [] c = "b" -> 98
      [] c = "o" -> 111 [] c = "{" -> 123 [] c = "}" -> 125
      [] OTHER -> 0

\* str::cmp: lexicographic on bytes
StrLess(x, y) ==
    \E i \in 1..(Len(x) + 1) :
        /\ i <= Len(y)
        /\ SubSeq(x, 1, i - 1) = SubSeq(y, 1, i - 1)
        /\ (i = Len(x) + 1 \/ Code(x[i]) < Code(y[i]))

StartsWith(s, p) == Len(p) <= Len(s) /\ SubSeq(s, 1, Len(p)) = p

\* str::contains
contains(s, p) == \E i \in 1..(Len(s) + 1) : StartsWith(SubSeq(s, i, Len(s)), p)

\* str::replace: every non-overlapping match, left to right (from non-empty)
RECURSIVE replace(_, _, _)
replace(s, from, to) ==
    IF s = <<>> THEN <<>>
    ELSE IF StartsWith(s, from)
         THEN to \o replace(SubSeq(s, Len(from) + 1, Len(s)), from, to)
    ELSE <<s[1]>> \o replace(Tail(s), from, to)

\* str::repeat
RECURSIVE repeat(_, _)
repeat(s, n) == IF n = 0 THEN <<>> ELSE s \o repeat(s, n - 1)

\* the decimal form of a length below ten, as format! writes it
Digits(n) == << <<"0", "1", "2", "3", "4", "5", "6", "7", "8", "9">>[n + 1] >>

DigitValue(c) ==
    CHOOSE n \in 0..9 : Digits(n) = <<c>>

IsDigit(c) == \E n \in 0..9 : Digits(n) = <<c>>

\* escape_glob (lines 298-308), replacement by replacement
escape_glob(input) ==
    LET r1 == replace(input, <<"!">>, <<"\\", "!">>)
        r2 == replace(r1, <<"#">>, <<"\\", "#">>)
        r3 == replace(r2, <<"*">>, <<"\\", "*">>)
        r4 == replace(r3, <<"?">>, <<"\\", "?">>)
        r5 == replace(r4, <<"#">>, <<"\\", "#">>)
        r6 == replace(r5, <<"[">>, <<"\\", "[">>)
        r7 == replace(r6, <<"]">>, <<"\\", "]">>)
        r8 == replace(r7, <<"{">>, <<"\\", "{">>)
    IN replace(r8, <<"}">>, <<"\\", "}">>)

\* regex_syntax::is_meta_character
RegexMeta ==
    {"\\", ".", "+", "*", "?", "(", ")", "|", "[", "]", "{", "}", "^", "$",
     "#", "&", "-", "~"}

\* regex::escape (line 71)
RECURSIVE escape(_)
escape(text) ==
    IF text = <<>> THEN <<>>
    ELSE (IF text[1] \in RegexMeta THEN <<"\\", text[1]>> ELSE <<text[1]>>)
         \o escape(Tail(text))

(***************************************************************************)
(* The glob of line 80: `\c` is the character c, `?` any one character.    *)
(* escape_glob leaves no other unescaped metacharacter in the pattern.     *)
(***************************************************************************)
RECURSIVE GlobItems(_)
GlobItems(g) ==
    IF g = <<>> THEN <<>>
    ELSE IF g[1] = "\\" /\ Len(g) >= 2
         THEN <<[any |-> FALSE, c |-> g[2]]>> \o GlobItems(SubSeq(g, 3, Len(g)))
    ELSE IF g[1] = "?"
         THEN <<[any |-> TRUE, c |-> "?"]>> \o GlobItems(Tail(g))
    ELSE <<[any |-> FALSE, c |-> g[1]]>> \o GlobItems(Tail(g))

GlobMatches(g, name) ==
    /\ Len(GlobItems(g)) = Len(name)
    /\ \A i \in 1..Len(name) : GlobItems(g)[i].any \/ GlobItems(g)[i].c = name[i]

\* the set S as the sequence sort_by(cmp) yields (line 82)
RECURSIVE Sorted(_)
Sorted(S) ==
    IF S = {} THEN <<>>
    ELSE LET m == CHOOSE x \in S : \A y \in S \ {x} : StrLess(x, y)
         IN <<m>> \o Sorted(S \ {m})

\* lines 80-85: the plain files the glob matches, sorted by path
Walk(glob, files) == Sorted({f \in files : GlobMatches(glob, f)})

(***************************************************************************)
(* The regex of line 73: `\c` is the character c, `(.{n})` a group of n    *)
(* characters, any other character itself.  Positions of the compiled      *)
(* pattern: [any, c, group].                                               *)
(***************************************************************************)
GroupOpen == <<"(", ".", "{">>

GroupClose == <<"}", ")">>

IsGroupAt(r) ==
    /\ Len(r) >= 6
    /\ StartsWith(r, GroupOpen)
    /\ IsDigit(r[4])
    /\ SubSeq(r, 5, 6) = GroupClose

RECURSIVE RegexItems(_, _)
RegexItems(r, g) ==
    IF r = <<>> THEN <<>>
    ELSE IF r[1] = "\\" /\ Len(r) >= 2
         THEN <<[any |-> FALSE, c |-> r[2], group |-> 0]>>
              \o RegexItems(SubSeq(r, 3, Len(r)), g)
    ELSE IF IsGroupAt(r)
         THEN repeat(<<[any |-> TRUE, c |-> ".", group |-> g + 1]>>, DigitValue(r[4]))
              \o RegexItems(SubSeq(r, 7, Len(r)), g + 1)
    ELSE <<[any |-> FALSE, c |-> r[1], group |-> 0]>> \o RegexItems(Tail(r), g)

\* Regex::new accepts r: outside `\c` and `(.{n})` no metacharacter with a
\* syntactic role is left
RECURSIVE RegexValid(_)
RegexValid(r) ==
    IF r = <<>> THEN TRUE
    ELSE IF r[1] = "\\" THEN Len(r) >= 2 /\ RegexValid(SubSeq(r, 3, Len(r)))
    ELSE IF IsGroupAt(r) THEN RegexValid(SubSeq(r, 7, Len(r)))
    ELSE r[1] \notin {"(", ")", "{", "}", "[", "]", "*", "+", "?", "|", "^", "$", "."}
         /\ RegexValid(Tail(r))

Min(S) == CHOOSE x \in S : \A y \in S : x <= y

MatchesAt(items, path, i) ==
    \A k \in 1..Len(items) : items[k].any \/ items[k].c = path[i + k - 1]

\* Regex::captures and Captures::get(1): the leftmost match of the unanchored
\* pattern and the text of its first group
captures(r, path) ==
    LET items  == RegexItems(r, 0)
        starts == {i \in 1..(Len(path) - Len(items) + 1) : MatchesAt(items, path, i)}
        first  == {k \in 1..Len(items) : items[k].group = 1}
    IN IF starts = {} THEN [matched |-> FALSE, group1 |-> None]
       ELSE IF first = {} THEN [matched |-> TRUE, group1 |-> None]
       ELSE [matched |-> TRUE,
             group1 |-> Some(SubSeq(path, Min(starts) + Min(first) - 1,
                                          Min(starts) + Max(first) - 1))]

(***************************************************************************)
(* resolve_pattern (lines 58-107)                                          *)
(***************************************************************************)
\* lines 63-64
glob_of(source, pattern) ==
    replace(escape_glob(source), pattern, repeat(<<"?">>, Len(pattern)))

\* line 71
regex_of(source, pattern) ==
    replace(escape(source), pattern, GroupOpen \o Digits(Len(pattern)) \o GroupClose)

Failed(walked) == [status |-> "err", jobs |-> <<>>, walked |-> walked]

\* the loop of lines 88-105 from match i on
RECURSIVE resolve_loop(_, _, _, _, _)
resolve_loop(o, regex, matches, i, acc) ==
    IF i > Len(matches) THEN [status |-> "ok", jobs |-> acc, walked |-> TRUE]
    ELSE IF ~captures(regex, matches[i]).matched THEN Failed(TRUE)
    ELSE IF ~captures(regex, matches[i]).group1.some
         THEN [status |-> "panic", jobs |-> <<>>, walked |-> TRUE]
    ELSE resolve_loop(o, regex, matches, i + 1,
             Append(acc, [source |-> matches[i],
                          target |-> replace(o.target, o.pattern,
                                             captures(regex, matches[i]).group1.v)]))

\* the same steps with the target template checked only after the walk
resolve_pattern_late_check(o, files) ==
    IF ~contains(o.source, o.pattern) THEN Failed(FALSE)
    ELSE IF ~RegexValid(regex_of(o.source, o.pattern)) THEN Failed(FALSE)
    ELSE IF ~contains(o.target, o.pattern)
         THEN Failed(TRUE)
    ELSE resolve_loop(o, regex_of(o.source, o.pattern),
                      Walk(glob_of(o.source, o.pattern), files), 1, <<>>)

\* status, the jobs returned, and whether the glob walk was started
resolve_pattern(o, files) ==
    IF ~contains(o.source, o.pattern) THEN Failed(FALSE)            \* lines 60-61
    ELSE IF ~RegexValid(regex_of(o.source, o.pattern)) THEN Failed(FALSE) \* line 73
    ELSE IF ~contains(o.target, o.pattern) THEN Failed(FALSE)       \* lines 76-78
    ELSE resolve_loop(o, regex_of(o.source, o.pattern),
                      Walk(glob_of(o.source, o.pattern), files), 1, <<>>)

(***************************************************************************)
(* main in batch mode (lines 39-53)                                        *)
(***************************************************************************)
Sources == { <<"b", "-", "#", "#">>, <<"b", "-", "N", "N">> }

Targets == { <<"o", "#", "#">>, <<"o", "N", "N">>, <<"o">> }

Patterns == { <<"#", "#">>, <<"N", "N">> }

\* plain files the working directory may hold
DiskUniverse ==
    { <<"b", "-", "0", "1">>, <<"b", "-", "0", "2">>, <<"b", "-", "1", "0">>,
      <<"b", "-", "\\", "#", "\\", "#">>, <<"b", "-", "0">>, <<"o", "0", "1">> }

\* line 41: resolve_pattern(&opts, pattern)?
ResolvePattern ==
    /\ pc = "resolve"
    /\ resolved' = resolve_pattern(ropts, disk)
    /\ pc' = CASE resolved'.status = "ok" -> "listed"
               [] resolved'.status = "err" -> "failed"
               [] OTHER -> "panicked"
    /\ UNCHANGED <<opts, parts, jobIdx, target, archive, tempdirs, unpack_dir,
                   processed_dir, unpackTree, outTree, visited, last, routes,
                   written, convFailed, lastArgs, unpacked, repack, result,
                   targetZip, ropts, disk>>

\* lines 42-52: the jobs are listed, then the prompt decides
Confirm ==
    /\ pc = "listed"
    /\ \E yes \in BOOLEAN :
         IF yes THEN pc' = "main" /\ parts' = Len(resolved.jobs)
         ELSE pc' = "done" /\ parts' = parts
    /\ UNCHANGED <<opts, jobIdx, target, archive, tempdirs, unpack_dir,
                   processed_dir, unpackTree, outTree, visited, last, routes,
                   written, convFailed, lastArgs, unpacked, repack, result,
                   targetZip, resolveVars>>

InitResolve ==
    /\ pc = "resolve"
    /\ opts = [define |-> None, extension |-> None, geometry |-> None, quality |-> None]
    /\ parts = 0
    /\ Idle
    /\ ropts \in [source : Sources, target : Targets, pattern : Patterns]
    /\ disk \in {D \in SUBSET DiskUniverse : Cardinality(D) <= MaxDisk}
    /\ resolved = [status |-> "none", jobs |-> <<>>, walked |-> FALSE]

NextResolve ==
    \/ ResolvePattern
    \/ Confirm

SpecResolve == InitResolve /\ [][NextResolve]_vars

(***************************************************************************)
(* Properties of the archive pipeline (Spec)                               *)
(***************************************************************************)
ArchiveFiles == {i \in 1..Len(archive) : ~archive[i].isDir}

\* C1: after process_archive succeeds, the target archive holds every opaque
\* (non-image) file of the source at the same relative path with the same
\* bytes, whatever the order of the walk and also in directories that hold
\* no image.
C1_OpaqueRoundTrip ==
    result = "ok" =>
        \A i \in ArchiveFiles :
            ~is_image(archive[i].path) =>
                [path |-> archive[i].path, data |-> Raw(archive[i].data)]
                    \in targetZip.files

\* C2: a failed conversion never aborts the job: process_files returns only
\* once every entry of the unpacked tree was dispatched, a job whose archive
\* unpacked always reaches repack_output, and the job succeeds whenever
\* repacking does.
C2_ConversionFailureIsolated ==
    /\ pc = "repack" => visited = Entries(unpackTree)
    /\ (unpacked = "ok" /\ result # "none") => repack # "none"
    /\ repack = "ok" => result = "ok"

\* a job that lost an image to a failed conversion, dispatched other entries
\* and still returned Ok after a successful repack
C2_Witness ==
    /\ result = "ok"
    /\ repack = "ok"
    /\ convFailed # {}
    /\ Cardinality(routes) >= 2
    /\ written # {}

\* C5: with the target path an existing non-empty directory, process_archive
\* rejects the job before unpack_archive is ever called.
C5_RejectBeforeUnpack == target = "nonempty_dir" => unpacked = "none"

ExpectedArgs(o, item) ==
    << Str("convert"), PathArg(unpack_dir, item),
       Str("-geometry"), Str(unwrap_or(o.geometry, "1000x1400^")),
       Str("-quality"), Str(unwrap_or(o.quality, "80")) >>
    \o (IF o.define.some THEN << Str("-define"), Str(o.define.v) >> ELSE <<>>)
    \o << PathArg(processed_dir, image_destination(o, item)) >>

\* C6: the raster tool is invoked with exactly convert, <source>, -geometry,
\* <spec>, -quality, <q>, then -define, <d> iff a define value is
\* configured, then <destination>.
C6_ArgSequence ==
    (pc = "walk" /\ last \in FilePaths(unpackTree) /\ is_image(last)) =>
        /\ Len(lastArgs) = Len(ExpectedArgs(opts, last))
        /\ \A i \in 1..Len(lastArgs) : lastArgs[i] = ExpectedArgs(opts, last)[i]

Lower(c) ==
    CASE c = "A" -> "a" [] c = "G" -> "g" [] c = "J" -> "j" [] c = "P" -> "p"
      [] OTHER -> c

LowerCased(s) == [i \in 1..Len(s) |-> Lower(s[i])]

\* C7: a file goes to the image transformer iff its lower-cased extension is
\* one of jpg, png, webp, avif, gif; every other file is copied as opaque.
C7_LowerCasedClassification ==
    \A r \in routes :
        (r.as = "image")
            <=> (LowerCased(Extension(FileName(r.src))) \in IMAGE_EXTENSIONS)

C9_DirsMirrored ==
    pc = "repack" =>
        /\ unpackTree.dirs \subseteq outTree.dirs
        /\ \A f \in outTree.files : Ancestors(f.path) \subseteq outTree.dirs

\* C10: within one job, distinct source entries are written to distinct
\* destinations of the output root.
C10_DisjointDestinations ==
    \A w1 \in written : \A w2 \in written :
        w1.src # w2.src => w1.dst # w2.dst

(***************************************************************************)
(* Properties of resolve_pattern (SpecResolve)                             *)
(***************************************************************************)
\* the strings v of the token's length with source[token := v] = f
TokenValues(o, f) ==
    {v \in {SubSeq(f, i, i + Len(o.pattern) - 1) :
                i \in 1..(Len(f) - Len(o.pattern) + 1)} :
        replace(o.source, o.pattern, v) = f}

ExpectedFiles(o, files) == Sorted({f \in files : TokenValues(o, f) # {}})

ExpectedJobs(o, files) ==
    [i \in 1..Len(ExpectedFiles(o, files)) |->
        [source |-> ExpectedFiles(o, files)[i],
         target |-> replace(o.target, o.pattern,
                            CHOOSE v \in TokenValues(o, ExpectedFiles(o, files)[i]) : TRUE)]]

\* C3: for a token that occurs in both templates, metacharacter tokens such
\* as "##" included, resolve_pattern returns exactly one job per plain file
\* that is the source template with the token replaced by a string of the
\* token's length, its target the target template with the same string, in
\* path order.
C3_OneJobPerMatch ==
    (resolved.status # "none"
        /\ contains(ropts.source, ropts.pattern)
        /\ contains(ropts.target, ropts.pattern)) =>
        /\ resolved.status = "ok"
        /\ resolved.jobs = ExpectedJobs(ropts, disk)

\* C4: with the token absent from the source or the target template,
\* resolve_pattern fails, returns no job and never starts the glob walk.
C4_AbsentTokenRejectedFirst ==
    (resolved.status # "none"
        /\ (~contains(ropts.source, ropts.pattern)
              \/ ~contains(ropts.target, ropts.pattern))) =>
        /\ resolved.status = "err"
        /\ resolved.jobs = <<>>
        /\ ~resolved.walked

\* the token is in the source but not in the target, files are on disk that
\* the glob would match, and resolve_pattern has failed without walking
C4_Witness ==
    /\ pc = "failed"
    /\ resolved.status = "err"
    /\ contains(ropts.source, ropts.pattern)
    /\ ~contains(ropts.target, ropts.pattern)
    /\ \E f \in disk : GlobMatches(glob_of(ropts.source, ropts.pattern), f)
    /\ ~resolved.walked
====
